---- MODULE Spec2Model ----
(***************************************************************************)
(* Model of the two Asterisk webhook forwarders of this repository:        *)
(*   - the line-protocol (AMI) forwarder, src/unnamed/part_000             *)
(*   - the JSON-protocol (ARI) forwarder,                                  *)
(*     src/event-handler/asterisk-webhook-forwarder.go                     *)
(*                                                                         *)
(* Strings are sequences of tokens.  A token is a piece of text that is    *)
(* never split further: ":" is a colon, "SP" a space, "CR" and "LF" the    *)
(* two bytes of the line terminator, every other token a run of letters.   *)
(* The word "Event" is always its own token, so that "SubEvent" is         *)
(* <<"Sub", "Event">> and the text "Event:" is found inside "SubEvent:".   *)
(***************************************************************************)
EXTENDS Integers, Sequences, FiniteSets, TLC

----------------------------------------------------------------------------
(* Bounds of the exploration *)

\* number of lines or messages a program reads from its source connection
\* (the welcome line not counted)
MaxReads == 5

\* seconds by which the clock of the timed specification advances in one step
TickSeconds == 10

----------------------------------------------------------------------------
(* Go's strings package, on token sequences *)

Whitespace == {"SP", "CR", "LF", "TAB"}

\* strings.Index: position of the first occurrence of sub in s, 0 if none
IndexOf(s, sub) ==
  LET hits == {i \in 1..(Len(s) - Len(sub) + 1) :
                  SubSeq(s, i, i + Len(sub) - 1) = sub}
  IN IF hits = {} THEN 0 ELSE CHOOSE i \in hits : \A j \in hits : i <= j

\* strings.Contains
Contains(s, sub) == IndexOf(s, sub) # 0

\* strings.TrimSpace: drops leading and trailing white space
TrimSpace(s) ==
  LET keep == {i \in 1..Len(s) : s[i] \notin Whitespace}
  IN IF keep = {} THEN <<>>
     ELSE SubSeq(s, CHOOSE i \in keep : \A j \in keep : i <= j,
                    CHOOSE i \in keep : \A j \in keep : i >= j)

\* strings.SplitN(s, sep, 2): split at the first occurrence of sep only
SplitN2(s, sep) ==
  LET i == IndexOf(s, sep)
  IN IF i = 0 THEN <<s>>
     ELSE <<SubSeq(s, 1, i - 1), SubSeq(s, i + Len(sep), Len(s))>>

\* strings.Split(s, sep): split at every occurrence of sep
RECURSIVE Split(_, _)
Split(s, sep) ==
  LET i == IndexOf(s, sep)
  IN IF i = 0 THEN <<s>>
     ELSE <<SubSeq(s, 1, i - 1)>> \o Split(SubSeq(s, i + Len(sep), Len(s)), sep)

CRLF == <<"CR", "LF">>
ColonSpace == <<":", "SP">>

\* eventData[key] = value on a Go map
MapPut(m, k, v) == [x \in (DOMAIN m) \cup {k} |-> IF x = k THEN v ELSE m[x]]

EmptyMap == [x \in {} |-> <<>>]

----------------------------------------------------------------------------
(* parseAMIEvent *)

\* the key that names the event type (part_000:188)
EventKey == <<"Event">>

\* one iteration of the loop over the lines of the frame (part_000:177-193)
ParseLine(acc, rawLine) ==
  LET line == TrimSpace(rawLine)
      parts == SplitN2(line, ColonSpace)
  IN IF line = <<>> THEN acc
     ELSE IF Len(parts) = 2
          THEN [eventType |-> IF parts[1] = EventKey THEN parts[2]
                              ELSE acc.eventType,
                eventData |-> MapPut(acc.eventData, parts[1], parts[2])]
          ELSE acc

RECURSIVE ParseLines(_, _)
ParseLines(acc, lines) ==
  IF lines = <<>> THEN acc
  ELSE ParseLines(ParseLine(acc, Head(lines)), Tail(lines))

\* a variant that takes the first Event line of a frame and any key that ends in Event
ParseLineSuffixKey(acc, rawLine) ==
  LET line == TrimSpace(rawLine)
      parts == SplitN2(line, ColonSpace)
  IN IF line = <<>> THEN acc
     ELSE IF Len(parts) = 2
          THEN [eventType |-> IF Len(parts[1]) > 0
                                 /\ parts[1][Len(parts[1])] = "Event"
                              THEN parts[2] ELSE acc.eventType,
                eventData |-> MapPut(acc.eventData, parts[1], parts[2])]
          ELSE acc

RECURSIVE ParseLinesSuffixKey(_, _)
ParseLinesSuffixKey(acc, lines) ==
  IF lines = <<>> THEN acc
  ELSE ParseLinesSuffixKey(ParseLineSuffixKey(acc, Head(lines)), Tail(lines))

parseAMIEventSuffixKey(eventText) ==
  ParseLinesSuffixKey([eventType |-> <<>>, eventData |-> EmptyMap],
                      Split(eventText, CRLF))

\* parseAMIEvent(eventText) (string, map[string]interface{})
parseAMIEvent(eventText) ==
  ParseLines([eventType |-> <<>>, eventData |-> EmptyMap],
             Split(eventText, CRLF))

----------------------------------------------------------------------------
(* shouldProcessEvent *)

callEvents == <<
  <<"Newchannel">>, <<"Hangup">>, <<"DialBegin">>, <<"DialEnd">>,
  <<"Bridge">>, <<"Unbridge">>,
  <<"NewCallerid">>, <<"NewAccountCode">>, <<"NewExten">>, <<"NewState">>,
  <<"Dial">>,
  <<"AgentCalled">>, <<"AgentConnect">>, <<"QueueMemberAdded">>,
  <<"QueueMemberRemoved">>,
  <<"Hold">>, <<"Unhold">>, <<"MusicOnHoldStart">>, <<"MusicOnHoldStop">>,
  <<"Transfer">>,
  <<"AttendedTransfer">>, <<"BlindTransfer">>, <<"DTMF">>,
  <<"VoicemailUserEntry">>,
  <<"CEL">>, <<"CDR">>, <<"LocalBridge">>, <<"LocalOptimizationBegin">>,
  <<"LocalOptimizationEnd">>,
  <<"OriginateResponse">>, <<"ChannelTalkingStart">>, <<"ChannelTalkingStop">>,
  <<"BridgeCreate">>, <<"BridgeDestroy">>, <<"BridgeEnter">>, <<"BridgeLeave">>,
  <<"VarSet">>, <<"User", "Event">>, <<"Registry">>, <<"PeerStatus">>,
  <<"ContactStatus">> >>

\* a classifier that lets every type through that is not a known non-call type
shouldProcessEventAnyType(eventType) ==
  eventType \notin {<<"FullyBooted">>, <<"hangup">>}

\* a classifier whose list also holds the empty name
shouldProcessEventOrEmpty(eventType) ==
  eventType = <<>> \/ \E i \in 1..Len(callEvents) : eventType = callEvents[i]

\* shouldProcessEvent(eventType string) bool
shouldProcessEvent(eventType) ==
  \E i \in 1..Len(callEvents) : eventType = callEvents[i]

----------------------------------------------------------------------------
(* Inputs *)

\* raw lines the line-protocol source may send, as ReadString('\n') returns them
LineHangup     == <<"Event", ":", "SP", "Hangup", "CR", "LF">>
LineDial       == <<"Event", ":", "SP", "Dial", "CR", "LF">>
LineUnknown    == <<"Event", ":", "SP", "FooBarUnknownEvent", "CR", "LF">>
LineLowercase  == <<"Event", ":", "SP", "hangup", "CR", "LF">>
LineEmptyEvent == <<"Event", ":", "SP", "CR", "LF">>
LineNoSep      == <<"Event", ":", "Hangup", "CR", "LF">>
LineSubEvent   == <<"Sub", "Event", ":", "SP", "Hangup", "CR", "LF">>
LineChannel    == <<"Channel", ":", "SP", "PJSIP/1001", ":", "SP", "1", "CR", "LF">>
LineEmptyValue == <<"ConnectedLineNum", ":", "SP", "CR", "LF">>
LineBlank      == <<"CR", "LF">>

Lines == {LineHangup, LineDial, LineUnknown, LineLowercase, LineEmptyEvent,
          LineNoSep, LineSubEvent, LineChannel, LineEmptyValue, LineBlank}

\* response lines of the login handshake
AuthAccepted == <<"Message", ":", "SP", "Authentication", "SP", "accepted">>
AuthFailed   == <<"Message", ":", "SP", "Authentication", "SP", "failed">>

LoginLines == {<<"Response", ":", "SP", "Success", "CR", "LF">>,
               <<"Response", ":", "SP", "Error", "CR", "LF">>,
               AuthAccepted \o CRLF,
               AuthFailed \o CRLF,
               LineBlank}

\* JSON values: a tag and a text; an object is a function from field names
JStr(v) == [t |-> "string", v |-> v]
JNum(v) == [t |-> "number", v |-> v]
JObj(v) == [t |-> "object", v |-> v]

\* messages the JSON-protocol source may send
MsgStasisStart == [kind |-> "object",
                   obj |-> [f \in {"type", "channel"} |->
                              IF f = "type" THEN JStr("StasisStart")
                              ELSE JObj("id=1")]]
MsgChannelEnd  == [kind |-> "object",
                   obj |-> [f \in {"type"} |-> JStr("ChannelDestroyed")]]
MsgEmptyType   == [kind |-> "object", obj |-> [f \in {"type"} |-> JStr("")]]
MsgNumberType  == [kind |-> "object", obj |-> [f \in {"type"} |-> JNum("5")]]
MsgNoType      == [kind |-> "object", obj |-> [f \in {"channel"} |-> JObj("id=1")]]
MsgNull        == [kind |-> "null", obj |-> [f \in {} |-> JStr("")]]
MsgArray       == [kind |-> "array", obj |-> [f \in {} |-> JStr("")]]
MsgGarbage     == [kind |-> "invalid", obj |-> [f \in {} |-> JStr("")]]

Messages == {MsgStasisStart, MsgChannelEnd, MsgEmptyType, MsgNumberType,
             MsgNoType, MsgNull, MsgArray, MsgGarbage}

\* values of WEBHOOK_URL in the environment (after config.env was applied)
URLUnset     == ""
URLGood      == "http://hook.example/events"
URLMalformed == "::not-a-url"
EnvURLs == {URLUnset, URLGood, URLMalformed}

\* what the webhook endpoint may do with one POST
HttpStatuses == {199, 200, 299, 300, 500}
WebhookOutcomes == [kind : {"response"}, status : HttpStatuses]
                     \cup {[kind |-> "error", status |-> 0]}

\* what the control endpoint may do with the registration PUT
RegisterStatuses == {200, 201, 204, 401, 500}
RegisterOutcomes == [kind : {"response"}, status : RegisterStatuses]
                      \cup {[kind |-> "error", status |-> 0]}

----------------------------------------------------------------------------
(* Pure parts of the two programs *)

\* getEnv(key, defaultValue)
getEnv(value, defaultValue) == IF value # "" THEN value ELSE defaultValue

\* config.WebhookURL as loadAMIConfig and loadConfig compute it
LoadedWebhookURL(v, env) ==
  IF v = "ami" THEN getEnv(env, "")
  ELSE getEnv(env, "http://localhost:3000/webhook")

\* json.Marshal of a WebhookPayload: the data is a map of strings (line
\* protocol) or a map that json.Unmarshal produced (JSON protocol), and
\* neither can fail to serialize
MarshalFails(pl) == FALSE

\* http.NewRequest fails when the URL does not parse
NewRequestFails(url) == url = URLMalformed

\* a status test that takes every status below 400 for a success
WebhookStatusIsErrorFrom400(status) == status >= 400

\* the status test of sendToWebhook: TRUE when an error is returned
WebhookStatusIsError(status) == status < 200 \/ status >= 300

\* error result of the HTTP exchange of sendToWebhook
WebhookFails(outcome) ==
  IF outcome.kind = "error" THEN TRUE
  ELSE WebhookStatusIsError(outcome.status)

\* a registration test that accepts every 2xx status
RegisterFailsAny2xx(outcome) ==
  IF outcome.kind = "error" THEN TRUE
  ELSE outcome.status < 200 \/ outcome.status >= 300

\* registerApplication: TRUE when an error is returned
RegisterFails(outcome) ==
  IF outcome.kind = "error" THEN TRUE
  ELSE outcome.status # 200 /\ outcome.status # 201

\* a handshake that goes on reading after the authentication-failed line
LoginOutcomeIgnoreFailed(line) ==
  IF Contains(line, AuthAccepted) THEN "accepted"
  ELSE IF line = <<>> THEN "blank"
  ELSE "continue"

\* connectToAMI: what one (trimmed) response line decides
LoginOutcome(line) ==
  IF Contains(line, AuthAccepted) THEN "accepted"
  ELSE IF Contains(line, AuthFailed) THEN "failed"
  ELSE IF line = <<>> THEN "blank"
  ELSE "continue"

\* a call of sendToWebhook made on a worker of its own
LoopPcDuringPostAsync == "read"

\* where the loop is while client.Do is outstanding: sendToWebhook is called
\* synchronously, the loop waits for its result
LoopPcDuringPost == "await"

\* a loop that gives up after a failed delivery
LoopPcAfterWebhookStop(failed) == IF failed THEN "done" ELSE "read"

\* a loop that sends the event again after a failed delivery
LoopPcAfterWebhookRetry(failed) == IF failed THEN "call" ELSE "read"

\* where the loop goes when sendToWebhook has returned: the result is logged
\* and the loop continues with the next read
LoopPcAfterWebhook(failed) == "read"

\* json.Unmarshal(message, &event) into a map[string]interface{}
UnmarshalFails(m) == m.kind \in {"invalid", "array"}

\* eventType, ok := event["type"].(string)
TypeIsString(m) ==
  /\ "type" \in DOMAIN m.obj
  /\ m.obj["type"].t = "string"

\* no deadline is armed
NoDeadline == -1

\* no heartbeat line has been logged
NoHeartbeat == -1

\* if time.Since(lastHeartbeat) > 60*time.Second, in seconds
HeartbeatSeconds == 60

\* a loop whose heartbeat reports the number of lines read
HeartbeatValueLines(count, lines) == lines

\* log.Printf("Heartbeat: %d events processed", eventCount)
HeartbeatValue(count, lines) == count

\* time.Since(lastHeartbeat) after TickSeconds more seconds; beyond the
\* heartbeat period the exact value no longer matters
Later(t) ==
  IF t = NoDeadline THEN NoDeadline
  ELSE IF t > HeartbeatSeconds THEN t ELSE t + TickSeconds

\* conn.SetReadDeadline(time.Now().Add(60 * time.Second)), in seconds
ReadDeadlineSeconds == 60

\* client := &http.Client{Timeout: 10 * time.Second}, in seconds
WebhookTimeoutSeconds == 10

\* a forwarding loop that never arms a read deadline
ArmedDeadlineNever(v) == NoDeadline

\* the read deadline the forwarding loop arms before a read: handleAMIEvents
\* sets one before the loop and after every successful read, handleEvents
\* sets none
ArmedDeadline(v) == IF v = "ami" THEN ReadDeadlineSeconds ELSE NoDeadline

\* a timer after TickSeconds more seconds
Elapse(t) ==
  IF t = NoDeadline THEN NoDeadline
  ELSE IF t > TickSeconds THEN t - TickSeconds ELSE 0

\* a loop that forwards a message only when its type is not empty
ForwardsMessageNonEmptyType(m) ==
  ~UnmarshalFails(m) /\ TypeIsString(m) /\ m.obj["type"].v # ""

\* handleEvents forwards a message when it decodes and its type is a string;
\* no other test is applied
ForwardsMessage(m) == ~UnmarshalFails(m) /\ TypeIsString(m)

\* a loop that returns when a message does not decode or has no type
LoopPcAfterSkippedMessageStop == "done"

\* handleEvents logs a message it cannot forward and continues with the next
\* read
LoopPcAfterSkippedMessage == "read"

----------------------------------------------------------------------------
(* State *)

VARIABLES
  variant,        \* which program runs: "ami" (part_000) or "ari"
  envWebhookURL,  \* WEBHOOK_URL of the environment, config.env applied
  webhookURL,     \* config.WebhookURL
  mainPc,         \* position of main
  loopPc,         \* position of the forwarding loop (the goroutine)
  dials,          \* connections to the event source established so far
  loginWrites,    \* login requests written by connectToAMI
  loginLine,      \* the last response line connectToAMI has read
  loginReadErr,   \* TRUE once a read of the login response has failed
  registerPuts,   \* registration PUTs issued by registerApplication
  registerResult, \* outcome of the registration PUT
  reads,          \* lines or messages read from the source connection
  currentEvent,   \* the strings.Builder of handleAMIEvents
  eventCount,     \* the counter of handleAMIEvents
  payload,        \* the WebhookPayload of the last call of sendToWebhook
  frameNo,        \* frames read so far: blank lines (ami), messages (ari)
  frameLines,     \* raw lines read since the last blank line
  lastFrame,      \* what the loop did with the last line-protocol frame
  lastMsg,        \* what the loop did with the last JSON-protocol message
  calls,          \* calls of sendToWebhook
  posts,          \* POST requests handed to client.Do
  started,        \* frame numbers, in the order sendToWebhook was called
  finished,       \* frame numbers, in the order sendToWebhook returned
  inflight,       \* frame numbers whose sendToWebhook has not yet returned
  failures,       \* calls of sendToWebhook that returned an error
  timed,          \* TRUE in the timed specification: timers run, results are kept
  deadline,       \* seconds until the read deadline of the connection expires
  httpTimer,      \* seconds until the timeout of the outstanding POST expires
  sendResult,     \* what the last call of sendToWebhook saw and returned
  sinceBeat,      \* seconds since lastHeartbeat, NoDeadline when not followed
  heartbeat,      \* the count the last heartbeat line reported
  handoverLost    \* lines left in the reader of connectToAMI when it returned

vars == <<variant, envWebhookURL, webhookURL, mainPc, loopPc, dials,
          loginWrites, loginLine, loginReadErr, registerPuts, registerResult,
          reads, currentEvent, eventCount, payload, frameNo, frameLines,
          lastFrame, lastMsg, calls, posts, started, finished, inflight, failures,
          timed, deadline, httpTimer, sendResult, sinceBeat, heartbeat,
          handoverLost>>

cfgVars   == <<variant, envWebhookURL>>
startVars == <<dials, loginWrites, loginLine, loginReadErr, registerPuts,
               registerResult>>
loopVars  == <<currentEvent, eventCount, payload, frameNo, frameLines,
               lastFrame, lastMsg, calls, posts, started, finished, inflight, failures>>

timeVars  == <<timed, deadline, httpTimer, sendResult>>
beatVars  == <<sinceBeat, heartbeat>>

\* what the source sends: the timed specification draws from a few inputs
\* only, its subject is the timing of the loop and not the text of a frame
SourceLines ==
  IF ~timed THEN Lines
  ELSE IF sinceBeat = NoDeadline THEN {LineHangup, LineBlank}
  ELSE {LineHangup, LineUnknown, LineBlank}
SourceLoginLines == IF timed THEN {AuthAccepted \o CRLF, LineBlank} ELSE LoginLines
SourceMessages == IF timed THEN {MsgStasisStart, MsgGarbage} ELSE Messages

\* what one transport read may bring after the line that ends the login
\* handshake: nothing, the rest of the login response, or that and a frame
LoginTails == {<<>>, <<LineBlank>>, <<LineBlank, LineHangup, LineBlank>>}

\* the lines beyond the login response are unseen by the program, so only the
\* timed specification, with its few inputs, follows them
SourceLoginTails ==
  IF timed /\ sinceBeat = NoDeadline THEN LoginTails ELSE {<<>>}

NoFrame == [hasEventKey |-> FALSE, hasMarker |-> FALSE, classified |-> FALSE,
            sent |-> FALSE]
NoMsg == [n |-> 0, msg |-> MsgNull, sent |-> FALSE]
NoOutcome == [kind |-> "none", status |-> 0]
NoResult == [outcome |-> NoOutcome, failed |-> FALSE, returned |-> FALSE]

\* the state in which main starts
Start ==
  /\ variant \in {"ami", "ari"}
  /\ envWebhookURL \in EnvURLs
  /\ webhookURL = ""
  /\ mainPc = "loadConfig"
  /\ loopPc = "idle"
  /\ dials = 0
  /\ loginWrites = 0
  /\ loginLine = <<>>
  /\ loginReadErr = FALSE
  /\ registerPuts = 0
  /\ registerResult = NoOutcome
  /\ reads = 0
  /\ currentEvent = <<>>
  /\ eventCount = 0
  /\ payload = IF variant = "ami"
               THEN [Source |-> "", EventType |-> <<>>, Data |-> EmptyMap]
               ELSE [Source |-> "", EventType |-> "", Data |-> MsgNull.obj]
  /\ frameNo = 0
  /\ frameLines = <<>>
  /\ lastFrame = NoFrame
  /\ lastMsg = NoMsg
  /\ calls = 0
  /\ posts = 0
  /\ started = <<>>
  /\ finished = <<>>
  /\ inflight = {}
  /\ failures = 0
  /\ deadline = NoDeadline
  /\ httpTimer = NoDeadline
  /\ sendResult = NoResult
  /\ heartbeat = NoHeartbeat
  /\ handoverLost = <<>>

\* the untimed specification leaves the clock out: a read or a POST may fail
\* at any moment
Init == Start /\ timed = FALSE /\ sinceBeat = NoDeadline

\* the timed specification: read deadline and client timeout run on a clock
InitLive == Start /\ timed = TRUE /\ sinceBeat = NoDeadline

\* the timed specification that also follows the heartbeat of handleAMIEvents
\* (the heartbeat only logs, so the other specifications leave it out)
InitBeat == Start /\ timed = TRUE /\ sinceBeat = 0

----------------------------------------------------------------------------
(* main of both programs, up to the start of the forwarding loop *)

\* loadAMIConfig / loadConfig: log.Fatal when config.WebhookURL is empty
LoadConfig ==
  /\ mainPc = "loadConfig"
  /\ webhookURL' = LoadedWebhookURL(variant, envWebhookURL)
  /\ mainPc' = IF webhookURL' = "" THEN "fatal"
               ELSE IF variant = "ami" THEN "connect" ELSE "register"
  /\ UNCHANGED <<cfgVars, handoverLost, beatVars, timeVars, loopPc, startVars, reads, loopVars>>

\* a main that connects again once the forwarding loop has ended
MayConnectAgain(pc, lp) == pc = "connect" \/ (pc = "wait" /\ lp = "done")

\* main calls connectToAMI once, after the configuration is loaded; nothing
\* brings it back to that call
MayConnect(pc, lp) == pc = "connect"

\* connectToAMI: net.Dial succeeds
DialAMI ==
  /\ variant = "ami" /\ MayConnect(mainPc, loopPc)
  /\ dials' = dials + 1
  /\ mainPc' = "welcome"
  /\ UNCHANGED <<cfgVars, handoverLost, beatVars, timeVars, webhookURL, loopPc, loginWrites, loginLine,
                 loginReadErr, registerPuts, registerResult, reads, loopVars>>

\* connectToAMI: net.Dial fails, main ends with log.Fatalf
DialAMIFails ==
  /\ variant = "ami" /\ mainPc = "connect"
  /\ mainPc' = "fatal"
  /\ UNCHANGED <<cfgVars, handoverLost, beatVars, timeVars, webhookURL, loopPc, startVars, reads, loopVars>>

\* connectToAMI: the welcome line is read, its error is ignored
ReadWelcome ==
  /\ variant = "ami" /\ mainPc = "welcome"
  /\ mainPc' = "login"
  /\ UNCHANGED <<cfgVars, handoverLost, beatVars, timeVars, webhookURL, loopPc, startVars, reads, loopVars>>

\* connectToAMI: conn.Write of the login request
SendLogin ==
  /\ variant = "ami" /\ mainPc = "login"
  /\ loginWrites' = loginWrites + 1
  /\ \E ok \in BOOLEAN : mainPc' = IF ok THEN "auth" ELSE "fatal"
  /\ UNCHANGED <<cfgVars, handoverLost, beatVars, timeVars, webhookURL, loopPc, dials, loginLine, loginReadErr,
                 registerPuts, registerResult, reads, loopVars>>

\* a main that starts the forwarding loop whatever the login response says
MainPcAfterLoginLenient(outcome) ==
  CASE outcome = "accepted" -> "spawn"
    [] outcome = "blank"    -> "spawn"
    [] outcome = "failed"   -> "spawn"
    [] OTHER                -> "auth"

\* main after one response line of the login handshake
MainPcAfterLogin(outcome) ==
  CASE outcome = "accepted" -> "spawn"
    [] outcome = "blank"    -> "spawn"
    [] outcome = "failed"   -> "fatal"
    [] OTHER                -> "auth"

\* connectToAMI: one response line is read.  When the line ends the
\* handshake connectToAMI returns the connection alone: what its bufio.Reader
\* has taken from the connection beyond that line goes with the reader
ReadLoginLine ==
  /\ variant = "ami" /\ mainPc = "auth"
  /\ reads < MaxReads
  /\ reads' = reads + 1
  /\ \E raw \in SourceLoginLines :
       /\ loginLine' = raw
       /\ mainPc' = MainPcAfterLogin(LoginOutcome(TrimSpace(raw)))
       /\ IF mainPc' = "spawn"
          THEN \E tail \in SourceLoginTails : handoverLost' = tail
          ELSE UNCHANGED handoverLost
  /\ UNCHANGED <<cfgVars, beatVars, timeVars, webhookURL, loopPc, dials, loginWrites, loginReadErr,
                 registerPuts, registerResult, loopVars>>

\* connectToAMI: reading the login response fails
ReadLoginError ==
  /\ variant = "ami" /\ mainPc = "auth"
  /\ loginReadErr' = TRUE
  /\ mainPc' = "fatal"
  /\ UNCHANGED <<cfgVars, handoverLost, beatVars, timeVars, webhookURL, loopPc, dials, loginWrites, loginLine,
                 registerPuts, registerResult, reads, loopVars>>

\* main of the JSON protocol: registerApplication, log.Fatalf on an error
RegisterApplication ==
  /\ variant = "ari" /\ mainPc = "register"
  /\ registerPuts' = registerPuts + 1
  /\ \E outcome \in RegisterOutcomes :
       /\ registerResult' = outcome
       /\ mainPc' = IF RegisterFails(outcome) THEN "fatal" ELSE "dialws"
  /\ UNCHANGED <<cfgVars, handoverLost, beatVars, timeVars, webhookURL, loopPc, dials, loginWrites, loginLine,
                 loginReadErr, reads, loopVars>>

\* connectToARI: the WebSocket dial succeeds
ConnectToARI ==
  /\ variant = "ari" /\ mainPc = "dialws"
  /\ dials' = dials + 1
  /\ mainPc' = "spawn"
  /\ UNCHANGED <<cfgVars, handoverLost, beatVars, timeVars, webhookURL, loopPc, loginWrites, loginLine,
                 loginReadErr, registerPuts, registerResult, reads, loopVars>>

\* connectToARI: the WebSocket dial fails, main ends with log.Fatalf
ConnectToARIFails ==
  /\ variant = "ari" /\ mainPc = "dialws"
  /\ mainPc' = "fatal"
  /\ UNCHANGED <<cfgVars, handoverLost, beatVars, timeVars, webhookURL, loopPc, startVars, reads, loopVars>>

\* main: go handleAMIEvents(conn, config) / go handleEvents(conn, config);
\* handleAMIEvents takes the time of its start as lastHeartbeat and arms the
\* read deadline before its first read; handleEvents has no heartbeat
StartLoop ==
  /\ mainPc = "spawn"
  /\ mainPc' = "wait"
  /\ loopPc' = "read"
  /\ deadline' = IF timed THEN ArmedDeadline(variant) ELSE deadline
  /\ sinceBeat' = IF sinceBeat # NoDeadline /\ variant = "ami" THEN 0
                   ELSE NoDeadline
  /\ UNCHANGED <<cfgVars, handoverLost, heartbeat, timed, httpTimer, sendResult, webhookURL,
                 startVars, reads, loopVars>>

\* main: <-interrupt.  The line-protocol main logs that it shuts down; the
\* JSON-protocol main writes a close message and sleeps a second.  The
\* connection stays open meanwhile.
Interrupt ==
  /\ mainPc = "wait"
  /\ mainPc' = "closing"
  /\ UNCHANGED <<cfgVars, handoverLost, beatVars, timeVars, webhookURL, loopPc, startVars, reads, loopVars>>

\* main returns: the deferred conn.Close() runs
FinishShutdown ==
  /\ mainPc = "closing"
  /\ mainPc' = "closed"
  /\ UNCHANGED <<cfgVars, handoverLost, beatVars, timeVars, webhookURL, loopPc, startVars, reads, loopVars>>

\* main has returned: the process ends, and the goroutine with it
ProcessExit ==
  /\ mainPc = "closed"
  /\ mainPc' = "exited"
  /\ UNCHANGED <<cfgVars, handoverLost, beatVars, timeVars, webhookURL, loopPc, startVars, reads, loopVars>>

\* the goroutine runs as long as the process does
Alive == mainPc \in {"wait", "closing", "closed"}

\* main has closed the connection to the event source
ConnClosed == mainPc \in {"closed", "exited"}

----------------------------------------------------------------------------
(* sendToWebhook, as the forwarding loops call it *)

\* the text the loop looks for before it parses a frame (part_000:230)
EventMarker == <<"Event", ":">>

\* a raw line without its line terminator
StripEOL(raw) ==
  IF Len(raw) >= 2 /\ SubSeq(raw, Len(raw) - 1, Len(raw)) = CRLF
  THEN SubSeq(raw, 1, Len(raw) - 2) ELSE raw

\* a raw line is a header when it holds the separator ": "
IsHeader(raw) == Contains(StripEOL(raw), ColonSpace)

\* key and value of a header line: the text before and after the first ": "
RawKey(raw) == SplitN2(StripEOL(raw), ColonSpace)[1]
RawValue(raw) == SplitN2(StripEOL(raw), ColonSpace)[2]

\* the frame has a line whose key is exactly Event
HasEventKey(lines) ==
  \E i \in 1..Len(lines) : IsHeader(lines[i]) /\ RawKey(lines[i]) = <<"Event">>

\* the text "Event:" occurs somewhere in a line of the frame
HasMarkerText(lines) ==
  \E i \in 1..Len(lines) : Contains(lines[i], <<"Event", ":">>)

\* a loop that keeps the accumulated lines when a frame ends
BufferAfterFrameKept(buf) == buf

\* currentEvent.Reset() after a blank line, whatever was done with the frame
BufferAfterFrame(buf) == <<>>

\* the loop calls sendToWebhook(config, pl) for frame number n
CallWebhook(pl, n) ==
  /\ payload' = pl
  /\ calls' = calls + 1
  /\ started' = Append(started, n)
  /\ inflight' = inflight \cup {n}
  /\ loopPc' = "call"

\* sendToWebhook returns for frame number n; the loop logs the result,
\* resets the frame buffer (line protocol) and continues
ReturnFromWebhook(n, failed) ==
  /\ finished' = Append(finished, n)
  /\ inflight' = inflight \ {n}
  /\ failures' = IF failed THEN failures + 1 ELSE failures
  /\ loopPc' = LoopPcAfterWebhook(failed)
  /\ currentEvent' = BufferAfterFrame(currentEvent)
  /\ frameLines' = <<>>

\* the timed specification keeps what a call of sendToWebhook saw (the outcome
\* of client.Do, if it got that far) and whether it returned an error
Result(outcome, failed) ==
  sendResult' = IF timed
                THEN [outcome |-> outcome, failed |-> failed, returned |-> TRUE]
                ELSE sendResult

\* sendToWebhook: json.Marshal (cannot fail on these payloads), then
\* http.NewRequest, then the request is handed to client.Do
SendRequest ==
  /\ Alive /\ loopPc = "call"
  /\ IF MarshalFails(payload) \/ NewRequestFails(webhookURL)
     THEN /\ ReturnFromWebhook(started[Len(started)], TRUE)
          /\ Result(NoOutcome, TRUE)
          /\ UNCHANGED <<posts, httpTimer>>
     ELSE /\ posts' = posts + 1
          /\ loopPc' = LoopPcDuringPost
          /\ httpTimer' = IF timed THEN WebhookTimeoutSeconds ELSE httpTimer
          /\ UNCHANGED <<finished, inflight, failures, currentEvent, frameLines,
                         sendResult>>
  /\ UNCHANGED <<cfgVars, handoverLost, beatVars, timed, deadline, webhookURL, mainPc, startVars, reads, eventCount,
                 payload, frameNo, lastFrame, lastMsg, calls, started>>

\* sendToWebhook: client.Do returns a response or an error before the
\* timeout of the client (the untimed specification counts a timeout among
\* the errors)
WebhookReply ==
  /\ Alive /\ loopPc = LoopPcDuringPost /\ inflight # {}
  /\ timed => httpTimer > 0
  /\ \E outcome \in WebhookOutcomes : \E n \in inflight :
       /\ ReturnFromWebhook(n, WebhookFails(outcome))
       /\ Result(outcome, WebhookFails(outcome))
  /\ httpTimer' = NoDeadline
  /\ UNCHANGED <<cfgVars, handoverLost, beatVars, timed, deadline, webhookURL, mainPc, startVars, reads, eventCount,
                 payload, frameNo, lastFrame, lastMsg, calls, posts, started>>

----------------------------------------------------------------------------
(* handleAMIEvents *)

\* one iteration of the loop of handleAMIEvents, up to the call of sendToWebhook.
\* Once main has closed the connection a read still returns the lines the
\* bufio.Reader had taken from it before.
AMIReadLine ==
  /\ variant = "ami" /\ Alive /\ loopPc = "read"
  /\ reads < MaxReads
  /\ timed => deadline # 0
  /\ reads' = reads + 1
  /\ deadline' = IF timed THEN ArmedDeadline(variant) ELSE deadline
  /\ IF sinceBeat > HeartbeatSeconds
     THEN /\ heartbeat' = HeartbeatValue(eventCount, reads')
          /\ sinceBeat' = 0
     ELSE UNCHANGED <<sinceBeat, heartbeat>>
  /\ \E raw \in SourceLines :
       LET line == TrimSpace(raw)
           eventText == currentEvent
           gate == eventText # <<>> /\ Contains(eventText, EventMarker)
           parsed == parseAMIEvent(eventText)
           pass == gate /\ shouldProcessEvent(parsed.eventType)
       IN IF line = <<>>
          THEN /\ frameNo' = frameNo + 1
               /\ lastFrame' = [hasEventKey |-> HasEventKey(frameLines),
                                hasMarker |-> HasMarkerText(frameLines),
                                classified |-> gate, sent |-> pass]
               /\ IF pass
                  THEN /\ eventCount' = eventCount + 1
                       /\ CallWebhook([Source |-> "asterisk-ami",
                                       EventType |-> parsed.eventType,
                                       Data |-> parsed.eventData],
                                      frameNo + 1)
                       /\ UNCHANGED <<currentEvent, frameLines, finished,
                                      failures>>
                  ELSE /\ currentEvent' = BufferAfterFrame(currentEvent)
                       /\ frameLines' = <<>>
                       /\ UNCHANGED <<loopPc, eventCount, payload, calls,
                                      started, inflight, finished, failures>>
          ELSE /\ currentEvent' = currentEvent \o line \o CRLF
               /\ frameLines' = Append(frameLines, raw)
               /\ UNCHANGED <<loopPc, eventCount, payload, frameNo, lastFrame,
                              calls, started, inflight, finished, failures>>
  /\ UNCHANGED <<cfgVars, handoverLost, timed, httpTimer, sendResult, webhookURL, mainPc,
                 startVars, lastMsg, posts>>

\* reader.ReadString / conn.ReadMessage returns an error: the loop returns
ReadError ==
  /\ Alive /\ loopPc = "read"
  /\ loopPc' = "done"
  /\ UNCHANGED <<cfgVars, handoverLost, beatVars, timeVars, webhookURL, mainPc, startVars, reads, loopVars>>

----------------------------------------------------------------------------
(* handleEvents *)

\* one iteration of the loop of handleEvents, up to the call of sendToWebhook.
\* Once main has closed the connection a read still returns the messages the
\* connection's buffered reader had taken from it before.
ARIReadMessage ==
  /\ variant = "ari" /\ Alive /\ loopPc = "read"
  /\ reads < MaxReads
  /\ reads' = reads + 1
  /\ frameNo' = frameNo + 1
  /\ \E m \in SourceMessages :
       LET pass == ForwardsMessage(m)
       IN /\ lastMsg' = [n |-> frameNo + 1, msg |-> m, sent |-> pass]
          /\ IF pass
             THEN CallWebhook([Source |-> "asterisk-ari",
                               EventType |-> m.obj["type"].v,
                               Data |-> m.obj],
                              frameNo + 1)
             ELSE /\ loopPc' = LoopPcAfterSkippedMessage
                  /\ UNCHANGED <<payload, calls, started, inflight>>
  /\ UNCHANGED <<cfgVars, handoverLost, beatVars, timeVars, webhookURL, mainPc, startVars, currentEvent,
                 eventCount, frameLines, lastFrame, posts, finished, failures>>

----------------------------------------------------------------------------
(* The clock of the timed specification *)

\* the forwarding loop is waiting for a timer that has run out
TimeoutDue ==
  \/ loopPc = "read" /\ deadline = 0
  \/ loopPc = LoopPcDuringPost /\ httpTimer = 0

\* TickSeconds pass while the forwarding loop runs
Tick ==
  /\ timed /\ Alive /\ loopPc \in {"read", "call", "await"}
  /\ ~TimeoutDue
  /\ deadline' = Elapse(deadline)
  /\ httpTimer' = Elapse(httpTimer)
  /\ sinceBeat' = Later(sinceBeat)
  /\ <<deadline', httpTimer', sinceBeat'>> # <<deadline, httpTimer, sinceBeat>>
  /\ UNCHANGED <<cfgVars, handoverLost, heartbeat, timed, sendResult, webhookURL, mainPc, loopPc,
                 startVars, reads, loopVars>>

\* reader.ReadString returns the timeout error of the read deadline: the loop
\* logs it and returns
ReadTimeout ==
  /\ timed /\ Alive /\ loopPc = "read"
  /\ deadline = 0
  /\ loopPc' = "done"
  /\ UNCHANGED <<cfgVars, handoverLost, beatVars, timeVars, webhookURL, mainPc, startVars, reads, loopVars>>

\* sendToWebhook: client.Do returns the timeout error of the client
WebhookTimeout ==
  /\ timed /\ Alive /\ loopPc = LoopPcDuringPost /\ inflight # {}
  /\ httpTimer = 0
  /\ \E n \in inflight : ReturnFromWebhook(n, TRUE)
  /\ Result([kind |-> "timeout", status |-> 0], TRUE)
  /\ httpTimer' = NoDeadline
  /\ UNCHANGED <<cfgVars, handoverLost, beatVars, timed, deadline, webhookURL, mainPc, startVars, reads,
                 eventCount, payload, frameNo, lastFrame, lastMsg, calls, posts,
                 started>>

----------------------------------------------------------------------------

Next ==
  \/ LoadConfig
  \/ DialAMI
  \/ DialAMIFails
  \/ ReadWelcome
  \/ SendLogin
  \/ ReadLoginLine
  \/ ReadLoginError
  \/ RegisterApplication
  \/ ConnectToARI
  \/ ConnectToARIFails
  \/ StartLoop
  \/ Interrupt
  \/ FinishShutdown
  \/ ProcessExit
  \/ AMIReadLine
  \/ ARIReadMessage
  \/ ReadError
  \/ SendRequest
  \/ WebhookReply

Spec == Init /\ [][Next]_vars

NextLive ==
  \/ Next
  \/ Tick
  \/ ReadTimeout
  \/ WebhookTimeout

\* Time passes, a timer that has run out fires, the goroutine is scheduled to
\* hand its request to the client, and main, once it has the signal, runs on
\* to its return.  Nothing is assumed about the source, the webhook endpoint
\* or the arrival of a signal.
Fairness ==
  /\ WF_vars(Tick)
  /\ WF_vars(ReadTimeout)
  /\ WF_vars(WebhookTimeout)
  /\ WF_vars(SendRequest)
  /\ WF_vars(FinishShutdown)
  /\ WF_vars(ProcessExit)

SpecLive == InitLive /\ [][NextLive]_vars /\ Fairness

SpecBeat == InitBeat /\ [][NextLive]_vars

----------------------------------------------------------------------------
(* Properties *)

\* the loop is between two frames: no call of sendToWebhook is outstanding
BetweenFrames == loopPc \in {"read", "done"}

\* the line-protocol loop took a blank line in this step
FrameEnds == variant = "ami" /\ frameNo' = frameNo + 1

\* the names of the allow-set
AllowSet == {callEvents[i] : i \in 1..Len(callEvents)}

\* C1: within one session the calls of sendToWebhook happen in the order in
\* which their frames were read, each call has returned before the next one
\* starts, and never are two calls outstanding at the same time.
C1_DispatchInReadOrder ==
  /\ Cardinality(inflight) <= 1
  /\ \A i \in 1..(Len(started) - 1) : started[i] < started[i + 1]
  /\ Len(finished) <= Len(started)
  /\ finished = SubSeq(started, 1, Len(finished))
  /\ Len(started) - Len(finished) = Cardinality(inflight)
  /\ inflight # {} => inflight = {frameNo}

\* the second forwarded frame is being delivered, the first one is done
C1_Witness ==
  /\ Len(started) = 2 /\ Len(finished) = 1
  /\ loopPc = "await"

\* C2: when sendToWebhook returns an error, the loop stays in the session: it
\* is back at the read of the next frame, and the process has not ended.
C2_FailureKeepsSession ==
  [][failures' = failures + 1
       => /\ loopPc' = "read"
          /\ mainPc' \in {"wait", "closing", "closed"}]_vars

\* every delivery so far has failed, and a later frame is being delivered
C2_Witness ==
  /\ failures >= 1 /\ failures = Len(finished)
  /\ Len(started) = failures + 1
  /\ loopPc = "await"

\* the message decodes to a JSON object with a string type field
IsTypedObject(m) ==
  /\ m.kind = "object"
  /\ "type" \in DOMAIN m.obj
  /\ m.obj["type"].t = "string"

\* the frame read in this step passes parsing and classification
FrameQualifies ==
  /\ frameNo' = frameNo + 1
  /\ IF variant = "ami"
     THEN parseAMIEvent(currentEvent).eventType \in AllowSet
     ELSE IsTypedObject(lastMsg'.msg)

\* C3: every frame that passes parsing and classification gets exactly one
\* delivery attempt (one call of sendToWebhook, which hands at most one POST
\* to the HTTP client), whether earlier attempts succeeded or failed, and
\* whatever the frames before it were; no other step makes an attempt.
C3_OneAttemptPerQualifyingFrame ==
  [][/\ calls' = calls + (IF FrameQualifies THEN 1 ELSE 0)
     /\ variant = "ami" => eventCount' = calls'
     /\ posts' \in {posts, posts + 1}
     /\ posts' <= calls'
     /\ webhookURL' # URLMalformed /\ loopPc' # "call" => posts' = calls'
     /\ BetweenFrames' => Len(finished') = calls']_vars

\* a failed delivery and a second frame that got its own POST
C3_Witness ==
  /\ failures = 1 /\ Len(finished) = 1
  /\ posts = 2 /\ calls = 2

\* C4: shouldProcessEvent is true exactly for the names of the allow-set
\* (exact match, case-sensitive), and a line-protocol frame ended by a blank
\* line leads to a call of sendToWebhook exactly when its parsed event type
\* is in the allow-set.
C4_ClassifierIsTheGate ==
  [][/\ mainPc = "loadConfig" =>
          /\ \A t \in AllowSet : shouldProcessEvent(t)
          /\ \A t \in {<<>>, <<"FooBarUnknownEvent">>, <<"hangup">>,
                       <<"HANGUP">>, <<"Hangup", "SP">>, <<"SP", "Hangup">>,
                       <<"User">>, <<"Event">>, <<"Hangup", "Dial">>,
                       <<"FullyBooted">>} :
               ~shouldProcessEvent(t)
     /\ FrameEnds =>
          LET t == parseAMIEvent(currentEvent).eventType
          IN /\ (calls' = calls + 1) <=> (t \in AllowSet)
             /\ (calls' = calls) <=> (t \notin AllowSet)
             /\ calls' = calls + 1 => payload'.EventType = t]_vars

\* a frame whose type is in the allow-set is being delivered
C4_Witness ==
  /\ variant = "ami" /\ loopPc = "await"
  /\ payload.EventType = <<"Hangup">>
  /\ frameLines = <<LineHangup>>

\* C5, as stated: no envelope is handed to sendToWebhook with an empty
\* event type.
C5_EventTypeNeverEmpty ==
  calls > 0 => IF variant = "ami" THEN payload.EventType # <<>>
               ELSE payload.EventType # ""

\* C5, amended: on the line-protocol path no envelope is handed to
\* sendToWebhook with an empty event type; on the JSON-protocol path the
\* event type is the string of the type field of the message, which is empty
\* when that field is the empty string.
C5_EventTypeOfEnvelope ==
  /\ variant = "ami" /\ calls > 0 => payload.EventType # <<>>
  /\ variant = "ari" /\ loopPc \in {"call", "await"} =>
       /\ lastMsg.msg.kind = "object"
       /\ "type" \in DOMAIN lastMsg.msg.obj
       /\ lastMsg.msg.obj["type"].t = "string"
       /\ payload.EventType = lastMsg.msg.obj["type"].v

\* a line-protocol frame with an empty Event value next to a good one is
\* being delivered
C5_Witness ==
  /\ variant = "ami" /\ loopPc = "await"
  /\ \E i \in 1..Len(frameLines) : frameLines[i] = LineEmptyEvent

\* C6, as stated: a line-protocol frame of blank lines only, or without a
\* line whose key is exactly Event, causes neither a call of
\* shouldProcessEvent nor a call of sendToWebhook.
C6_NoCallbackWithoutEventKey ==
  frameNo > 0 /\ ~lastFrame.hasEventKey
    => ~lastFrame.classified /\ ~lastFrame.sent

\* C6, amended: such a frame never causes a call of sendToWebhook; it causes
\* no call of shouldProcessEvent either, unless the text "Event:" occurs
\* somewhere in it (inside another key such as SubEvent, or in a line without
\* the separator): then shouldProcessEvent is called with the empty type.
C6_NoDispatchWithoutEventKey ==
  frameNo > 0 /\ ~lastFrame.hasEventKey
    => /\ ~lastFrame.sent
       /\ lastFrame.classified <=> lastFrame.hasMarker

\* a frame without an Event key that holds the text "Event:" (a SubEvent
\* key, or a line without the separator) was classified and dropped
C6_Witness ==
  /\ variant = "ami" /\ frameNo > 0
  /\ ~lastFrame.hasEventKey /\ lastFrame.hasMarker
  /\ lastFrame.classified /\ ~lastFrame.sent
  /\ loopPc = "read"

\* the last header line of the frame with the key k
LastWithKey(lines, k) ==
  CHOOSE i \in 1..Len(lines) :
    /\ IsHeader(lines[i]) /\ RawKey(lines[i]) = k
    /\ \A j \in (i + 1)..Len(lines) :
         ~(IsHeader(lines[j]) /\ RawKey(lines[j]) = k)

\* C7: for a frame with an Event key, parseAMIEvent returns the value of the
\* (last) Event line as the event type, and a map that holds every
\* Key: Value pair of the frame, split at the first ": ", the last
\* occurrence of a key winning.
C7_ParseKeepsEveryPair ==
  variant = "ami" /\ loopPc \in {"call", "await"} /\ HasEventKey(frameLines)
    => /\ payload.EventType
            = RawValue(frameLines[LastWithKey(frameLines, <<"Event">>)])
       /\ \A i \in 1..Len(frameLines) :
            IsHeader(frameLines[i]) =>
              LET k == RawKey(frameLines[i])
              IN /\ k \in DOMAIN payload.Data
                 /\ payload.Data[k]
                      = RawValue(frameLines[LastWithKey(frameLines, k)])
       /\ \A k \in DOMAIN payload.Data :
            \E i \in 1..Len(frameLines) :
              IsHeader(frameLines[i]) /\ RawKey(frameLines[i]) = k

\* C8: a header line with an empty value of a forwarded frame is in the data
\* of the envelope, its key mapped to the empty string.
C8_EmptyValueIsForwarded ==
  /\ variant = "ami" /\ loopPc \in {"call", "await"}
  /\ \E i \in 1..Len(frameLines) : frameLines[i] = LineEmptyValue
  => /\ <<"ConnectedLineNum">> \in DOMAIN payload.Data
     /\ payload.Data[<<"ConnectedLineNum">>] = <<>>

\* positions of main once the session with the source is established
Started == {"spawn", "wait", "closing", "closed", "exited"}

\* the response line decides the handshake
Deciding(raw) ==
  \/ Contains(raw, AuthAccepted)
  \/ Contains(raw, AuthFailed)
  \/ raw = LineBlank

\* C9: connectToAMI sends one login request and reads response lines up to
\* the first one that decides: the accepted marker or an empty line make the
\* session active, the failed marker or a read error make main end, with no
\* second login, no forwarding loop and no call of sendToWebhook.
C9_LoginHandshake ==
  variant = "ami" =>
    /\ loginWrites <= 1 /\ dials <= 1
    /\ mainPc \in {"auth"} \cup Started => loginWrites = 1
    /\ mainPc = "auth" => loginLine = <<>> \/ ~Deciding(loginLine)
    /\ mainPc \in Started
         => Contains(loginLine, AuthAccepted) \/ loginLine = LineBlank
    /\ Contains(loginLine, AuthFailed) => mainPc = "fatal"
    /\ Contains(loginLine, AuthAccepted) \/ loginLine = LineBlank
         => ~loginReadErr /\ mainPc \in Started
    /\ loginReadErr => mainPc = "fatal"
    /\ mainPc = "fatal" => loopPc = "idle" /\ calls = 0 /\ posts = 0

\* an empty line came before any marker and the forwarding loop runs
C9_Witness ==
  /\ variant = "ami" /\ loginLine = LineBlank
  /\ mainPc = "wait" /\ loopPc = "read"
  /\ reads = 2

\* the registration PUT got the status 200 or 201
Registered ==
  registerResult.kind = "response" /\ registerResult.status \in {200, 201}

\* C10: the event stream is opened only after the registration PUT returned
\* 200 or 201; after any other status or a failure of the PUT main ends
\* without a second PUT, an event stream, a forwarding loop or a call of
\* sendToWebhook.
C10_RegisterBeforeStream ==
  variant = "ari" =>
    /\ registerPuts <= 1 /\ dials <= 1
    /\ dials > 0 => Registered
    /\ mainPc \in {"dialws"} \cup Started => Registered
    /\ loopPc # "idle" => Registered /\ dials = 1
    /\ registerPuts = 1 /\ ~Registered
         => /\ mainPc = "fatal" /\ dials = 0
            /\ loopPc = "idle" /\ calls = 0 /\ posts = 0

\* the PUT returned 204 and main has ended
C10_Witness ==
  /\ variant = "ari" /\ mainPc = "fatal"
  /\ registerResult = [kind |-> "response", status |-> 204]
  /\ dials = 0

----------------------------------------------------------------------------
(* Properties of the timed specification and of the shutdown *)

\* the line-protocol loop took a line from its connection in this step
AMIReadSucceeds == variant = "ami" /\ loopPc = "read" /\ reads' = reads + 1

\* C11: while the line-protocol session is active a read deadline is armed
\* (before the first read, and anew after every successful read); a read that
\* succeeds does so before the deadline and never ends the session; and when
\* the source sends nothing more, the blocked read does not wait forever: the
\* loop ends with a read error (unless the process is shut down first).
C11_ReadDeadlineEndsSilentSession ==
  /\ [][(variant = "ami" /\ loopPc' = "read") => deadline' # NoDeadline]_vars
  /\ [][AMIReadSucceeds => /\ deadline > 0
                           /\ deadline' = ReadDeadlineSeconds
                           /\ loopPc' \in {"read", "call"}]_vars
  /\ \A r \in 0..MaxReads :
       (variant = "ami" /\ loopPc = "read" /\ reads = r)
         ~> (loopPc = "done" \/ reads > r \/ mainPc = "exited")

\* the deadline ran out on a silent connection after a frame had been read,
\* and the loop has ended
C11_Witness ==
  /\ timed /\ variant = "ami" /\ mainPc = "wait"
  /\ loopPc = "done" /\ deadline = 0 /\ frameNo > 0

\* a delivery does not block the loop forever: the call of sendToWebhook that
\* is outstanding returns (or the process exits first)
DeliveryReturns ==
  \A c \in 1..MaxReads :
    (loopPc \in {"call", "await"} /\ calls = c)
      ~> (Len(finished) >= c \/ mainPc = "exited")

\* a blocked read does not block the loop forever: another frame is read, or
\* the loop ends (or the process exits first)
ReadReturns ==
  \A r \in 0..MaxReads :
    (loopPc = "read" /\ reads = r)
      ~> (loopPc = "done" \/ reads > r \/ mainPc = "exited")

\* C12: in both variants the forwarding loop leaves every blocked state, the
\* frame read as well as the webhook delivery, even when the peer neither
\* sends data nor closes the connection.
C12_LoopNeverBlocksForever == ReadReturns /\ DeliveryReturns

C14_AutomaticReconnection ==
  (loopPc = "done" /\ mainPc = "wait")
    ~> ((dials > 1 /\ loopPc = "read") \/ mainPc # "wait")

\* C15: whenever the forwarding loop has ended on a read failure, the process
\* eventually terminates, signal or no signal: it does not stay alive with
\* its loop ended.
C15_ExitsAfterConnectionFailure ==
  (loopPc = "done") ~> (mainPc = "exited")

\* C16: a shutdown signal cancels no delivery in flight: when the process has
\* terminated, no call of sendToWebhook is left without its result.
C16_ShutdownSparesDelivery ==
  mainPc = "exited" => loopPc \notin {"call", "await"} /\ inflight = {}

\* no call of sendToWebhook starts once main has closed the connection
NoDispatchAfterClose == [][ConnClosed => calls' = calls]_vars

\* a loop that was not inside a delivery has ended when the process is gone
LoopEndsBeforeExit ==
  mainPc = "exited" /\ loopPc \notin {"call", "await"} => loopPc = "done"

\* C17: on a shutdown signal main closes the connection to the source, the
\* blocked read of the forwarding loop then fails and the loop ends, and no
\* call of sendToWebhook starts after the connection was closed.
C17_CloseEndsLoop ==
  /\ [](mainPc = "exited" => ConnClosed)
  /\ NoDispatchAfterClose
  /\ [](LoopEndsBeforeExit)

----------------------------------------------------------------------------
(* Properties of the JSON-protocol loop and of sendToWebhook *)

\* the JSON-protocol loop took a message in this step
MessageRead == variant = "ari" /\ frameNo' = frameNo + 1

\* C18: a message that is not valid JSON, or whose type field is missing or
\* not a string, causes no call of sendToWebhook and no POST and leaves the
\* loop at its read; a well-formed message that follows such a message is
\* forwarded.
C18_BadMessageIsSkipped ==
  /\ [][MessageRead /\ ~IsTypedObject(lastMsg'.msg)
         => /\ calls' = calls /\ posts' = posts
            /\ loopPc' = "read" /\ mainPc' = mainPc]_vars
  /\ [][MessageRead /\ lastMsg.n > 0 /\ ~IsTypedObject(lastMsg.msg)
                     /\ IsTypedObject(lastMsg'.msg)
         => calls' = calls + 1 /\ loopPc' = "call"]_vars

\* the first message was skipped and the second one is being delivered
C18_Witness ==
  /\ variant = "ari" /\ ~timed
  /\ lastMsg.n = 2 /\ lastMsg.sent /\ calls = 1
  /\ loopPc = "await"

\* C19: every message that decodes to an object with a string type field is
\* forwarded, whatever the type: exactly one call of sendToWebhook, with
\* source "asterisk-ari", the type field as event type and the whole decoded
\* object, type field included, as data.
C19_TypedMessageIsForwardedWhole ==
  [][MessageRead /\ IsTypedObject(lastMsg'.msg)
       => /\ calls' = calls + 1
          /\ started' = Append(started, frameNo')
          /\ payload'.Source = "asterisk-ari"
          /\ payload'.EventType = lastMsg'.msg.obj["type"].v
          /\ payload'.Data = lastMsg'.msg.obj
          /\ "type" \in DOMAIN payload'.Data]_vars

\* a message whose type is the empty string is being delivered
C19_Witness ==
  /\ variant = "ari" /\ ~timed
  /\ lastMsg.msg = MsgEmptyType /\ lastMsg.sent
  /\ payload.EventType = "" /\ payload.Data = MsgEmptyType.obj
  /\ loopPc = "await"

\* the call of sendToWebhook got a response with a status of 200 to 299
GotSuccessStatus(r) ==
  /\ r.outcome.kind = "response"
  /\ 200 <= r.outcome.status /\ r.outcome.status < 300

\* C20: a call of sendToWebhook returns success exactly when it received a
\* response whose status s has 200 <= s < 300; any other status, a failed or
\* timed-out request and a request that could not be built make it return
\* an error, which the loop counts; and a call issues at most one POST.
C20_SuccessIffStatus2xx ==
  /\ [](sendResult.returned => (sendResult.failed <=> ~GotSuccessStatus(sendResult)))
  /\ [][Len(finished') = Len(finished) + 1
         => /\ sendResult'.returned
            /\ failures' = failures + (IF sendResult'.failed THEN 1 ELSE 0)]_vars
  /\ [][posts' # posts
         => posts' = posts + 1 /\ loopPc = "call" /\ loopPc' # "call"]_vars
  /\ [][loopPc' = "call" /\ loopPc # "call" => calls' = calls + 1]_vars
  /\ [](posts <= calls)

\* a call has returned success on the status 299, the last one of the range
C20_Witness ==
  /\ timed /\ sendResult.returned /\ ~sendResult.failed
  /\ sendResult.outcome = [kind |-> "response", status |-> 299]
  /\ Len(finished) = calls /\ posts = calls

----------------------------------------------------------------------------
(* Properties of the configuration, the counter and the frame buffer *)

\* C21: in both programs, when neither the environment nor the settings file
\* gives a webhook URL, the process ends before it connects to the source,
\* before it registers or logs in, and before a forwarding loop runs.
C21_WebhookURLRequired ==
  envWebhookURL = URLUnset
    => /\ mainPc \in {"loadConfig", "fatal"}
       /\ dials = 0 /\ registerPuts = 0 /\ loginWrites = 0
       /\ loopPc = "idle" /\ calls = 0

\* C22: in the line-protocol loop the event counter is the number of frames
\* that passed the classifier, which is the number of calls of sendToWebhook
\* started: it starts at 0, grows by one with each call and only then (not
\* for a frame that is discarded or filtered, not when a delivery returns,
\* whatever its result), never shrinks, and a heartbeat line reports it.
C22_EventCountIsDispatchCount ==
  /\ [](variant = "ami" => eventCount = calls /\ eventCount = Len(started))
  /\ [](loopPc = "idle" => eventCount = 0)
  /\ [][variant = "ami" /\ FrameEnds
         => /\ eventCount' = eventCount + (IF lastFrame'.sent THEN 1 ELSE 0)
            /\ lastFrame'.sent <=> loopPc' = "call"]_vars
  /\ [][variant = "ami" /\ ~FrameEnds => eventCount' = eventCount]_vars
  /\ [][heartbeat' # heartbeat
         => heartbeat' = eventCount /\ heartbeat' = calls]_vars

\* a heartbeat has reported one forwarded event; after it a frame was
\* filtered out and the counter is still one
C22_Witness ==
  /\ variant = "ami" /\ heartbeat = 1 /\ eventCount = 1
  /\ lastFrame.classified /\ ~lastFrame.sent
  /\ Len(finished) = 1

\* the session with the source is established: the connection is made and
\* the login was accepted (by its marker or by an empty line), or the
\* registration succeeded and the event stream is open
SessionEstablished ==
  /\ dials = 1
  /\ mainPc \in Started
  /\ variant = "ami"
       => /\ loginWrites = 1 /\ ~loginReadErr
          /\ Contains(loginLine, AuthAccepted) \/ loginLine = LineBlank
  /\ variant = "ari" => registerPuts = 1 /\ Registered

KeysOf(lines) ==
  {RawKey(lines[i]) : i \in {j \in 1..Len(lines) : IsHeader(lines[j])}}

\* C24: on the line-protocol path the accumulation buffer is empty once a
\* blank line has been processed, whether the frame was dispatched (and the
\* delivery succeeded or failed), filtered out or discarded; so the data of
\* every dispatched envelope has only keys of lines read since the previous
\* blank line.
C24_FramesDoNotLeak ==
  /\ [][variant = "ami" /\ FrameEnds /\ loopPc' = "read"
         => currentEvent' = <<>>]_vars
  /\ [][variant = "ami" /\ Len(finished') = Len(finished) + 1
         => currentEvent' = <<>>]_vars
  /\ [](variant = "ami" /\ loopPc = "read" /\ frameLines = <<>>
         => currentEvent = <<>>)
  /\ [][variant = "ami" /\ calls' = calls + 1
         => DOMAIN payload'.Data \subseteq KeysOf(frameLines)]_vars

\* the delivery of the first frame failed, and the second frame is being
\* delivered with its own line only
C24_Witness ==
  /\ variant = "ami" /\ ~timed
  /\ calls = 2 /\ failures = 1 /\ loopPc = "await"
  /\ Len(frameLines) = 1
  /\ DOMAIN payload.Data = KeysOf(frameLines)

----------------------------------------------------------------------------
(* Property of the hand-over from connectToAMI to handleAMIEvents *)

RECURSIVE LoopWouldDispatch(_, _)
\* the loop of handleAMIEvents, run on the given raw lines with the given
\* buffer, calls sendToWebhook at least once
LoopWouldDispatch(buf, lines) ==
  IF lines = <<>> THEN FALSE
  ELSE LET line == TrimSpace(Head(lines))
       IN IF line = <<>>
          THEN \/ /\ buf # <<>> /\ Contains(buf, EventMarker)
                  /\ shouldProcessEvent(parseAMIEvent(buf).eventType)
               \/ LoopWouldDispatch(<<>>, Tail(lines))
          ELSE LoopWouldDispatch(buf \o line \o CRLF, Tail(lines))

\* C25: no event is lost between the login phase and the forwarding loop:
\* the lines that the source sent after its login response and that the
\* reader of connectToAMI had already taken from the connection hold no
\* complete allow-set frame that handleAMIEvents never gets to read.
C25_NoEventLostAtHandover ==
  variant = "ami" /\ loopPc # "idle" => ~LoopWouldDispatch(<<>>, handoverLost)

====
